---- MODULE Spec2Model ----
(***************************************************************************)
(* Model of the user service (src/app.js): the in-memory record store,     *)
(* the request handlers, the NATS adapter handle and the startup and       *)
(* SIGTERM sequences.                                                      *)
(*                                                                         *)
(* One action is one run-to-completion stretch of JavaScript: a            *)
(* synchronous handler runs whole; an async function runs up to its await  *)
(* and its continuation runs when the awaited promise settles.  The NATS   *)
(* client is an external library: its promises (connect, publish, close)   *)
(* may resolve, reject or stay pending.                                    *)
(***************************************************************************)
EXTENDS Integers, Sequences, FiniteSets, TLC

\* Number of requests that arrive in one run.
MaxReq == 3

\* Values of a JSON body field.  UNDEF stands for a field absent from the body.
UNDEF == "<undefined>"
NULL == "null"
CLIENT == "client"

PostNames == {UNDEF, "", "John"}
PostEmails == {UNDEF, "", "john@x"}
PutNames == {UNDEF, "", "New"}
PutEmails == {UNDEF, "", "new@x"}

\* :id path segments, as sequences of characters.
Segs == { <<"1">>, <<"2">>, <<"a", "b", "c">>, <<"1", "a", "b", "c">>, <<"1", ".", "5">> }

VARIABLES
    users,      \* app.js:10  the collection
    nextId,     \* app.js:11  the next-identifier counter
    nats,       \* app.js:14  the adapter handle, NULL or CLIENT
    connState,  \* the connection inside the NATS library
    listening,  \* the HTTP listener is bound
    closeP,     \* the promise of nats.close() awaited by the SIGTERM handler
    sigterm,    \* the termination signal has been received
    exited,     \* the process has ended
    exitCode,   \* its exit code
    inflight,   \* POST handlers suspended at the awaited publish
    nReq,       \* requests accepted so far
    clock,      \* the wall clock read by new Date()
    lastResp,   \* the response written last
    lastLog,    \* the console line written last
    created,    \* history: the ids assigned, in creation order
    sends       \* history: the user.created sends attempted

vars == << users, nextId, nats, connState, listening, closeP, sigterm, exited,
           exitCode, inflight, nReq, clock, lastResp, lastLog, created, sends >>

store == << users, nextId, created >>
lifecycle == << nats, connState, listening, closeP, sigterm, exited, exitCode >>

----
\* JavaScript helpers

\* !v is false for every non-empty string; absent and "" are falsy.
Truthy(v) == v # UNDEF /\ v # ""

\* a ?? b: only an absent value falls back.
OrNullish(a, b) == IF a # UNDEF THEN a ELSE b

\* a || b
Or(a, b) == IF Truthy(a) THEN a ELSE b

Digits == {"0", "1", "2", "3", "4", "5", "6", "7", "8", "9"}

DigitVal(c) ==
    CASE c = "0" -> 0 [] c = "1" -> 1 [] c = "2" -> 2 [] c = "3" -> 3
      [] c = "4" -> 4 [] c = "5" -> 5 [] c = "6" -> 6 [] c = "7" -> 7
      [] c = "8" -> 8 [] c = "9" -> 9

\* The longest prefix of s made of digits.
RECURSIVE DigitPrefix(_)
DigitPrefix(s) ==
    IF s = <<>> \/ Head(s) \notin Digits THEN <<>>
    ELSE <<Head(s)>> \o DigitPrefix(Tail(s))

RECURSIVE DecValue(_, _)
DecValue(s, acc) ==
    IF s = <<>> THEN acc ELSE DecValue(Tail(s), acc * 10 + DigitVal(Head(s)))

\* parseInt(seg): the integer spelled by the leading digits, NaN if there are
\* none.  The segments of Segs carry no sign, blank or 0x prefix.
ParseInt(seg) ==
    LET p == DigitPrefix(seg)
    IN  IF p = <<>> THEN [nan |-> TRUE, val |-> 0]
        ELSE [nan |-> FALSE, val |-> DecValue(p, 0)]

\* u.id === userId; NaN equals nothing.
IdEq(id, userId) == ~userId.nan /\ id = userId.val

\* users.findIndex(u => u.id === userId), 1-based; 0 stands for -1.
FindIndex(userId) ==
    IF \E i \in 1..Len(users) : IdEq(users[i].id, userId)
    THEN CHOOSE i \in 1..Len(users) :
            /\ IdEq(users[i].id, userId)
            /\ \A j \in 1..(i - 1) : ~IdEq(users[j].id, userId)
    ELSE 0

\* The delete handler, were it to drop the last element, as splice(-1, 1) does.
SpliceLast(s, i) == SubSeq(s, 1, Len(s) - 1)

\* users.splice(i, 1)
Splice(s, i) == [k \in 1..(Len(s) - 1) |-> IF k < i THEN s[k] ELSE s[k + 1]]

----
\* A request as the handlers see it: method and path, the :id segment and the
\* two body fields.
Req(method, seg, name, email) ==
    [method |-> method, seg |-> seg, name |-> name, email |-> email]

EmptyBody == [empty |-> TRUE]
ErrorBody(msg) == [error |-> msg]

\* res.status(status).json(body) for request rid.  The response is kept with
\* two facts about the run: whether the request was accepted after the
\* termination signal, and the connection state when it was answered.
Reply(rid, req, status, body, afterSig) ==
    lastResp' = [rid |-> rid, req |-> req, status |-> status, body |-> body,
                 afterSig |-> afterSig, conn |-> connState]

\* A response written in the step that accepted the request.
Respond(rid, req, status, body) == Reply(rid, req, status, body, sigterm)

\* The server takes a request off a connection: it is bound and the process runs.
Accept ==
    /\ listening
    /\ ~exited
    /\ nReq < MaxReq
    /\ nReq' = nReq + 1
    /\ clock' = clock + 1

\* new Date().toISOString()
Now == clock

----
Init ==
    /\ users = <<>>
    /\ nextId = 1
    /\ nats = NULL
    /\ connState = "Disconnected"
    /\ listening = FALSE
    /\ closeP = "none"
    /\ sigterm = FALSE
    /\ exited = FALSE
    /\ exitCode = 0
    /\ inflight = {}
    /\ nReq = 0
    /\ clock = 1
    /\ lastResp = [rid |-> 0, req |-> Req("none", <<>>, UNDEF, UNDEF), status |-> 0,
                   body |-> EmptyBody, afterSig |-> FALSE, conn |-> "Disconnected"]
    /\ lastLog = ""
    /\ created = <<>>
    /\ sends = <<>>

----
\* Startup

\* app.listen(port, ...): the listener is bound.
Listen ==
    /\ ~exited
    /\ ~listening
    /\ listening' = TRUE
    /\ UNCHANGED << nats, connState, closeP, sigterm, exited, exitCode >>
    /\ UNCHANGED << store, inflight, nReq, clock, lastResp, sends, lastLog >>

\* Startup, were initNATS called at module load instead of in the listen callback.
InitNATSAtLoad ==
    /\ ~exited
    /\ connState = "Disconnected"
    /\ connState' = "Connecting"
    /\ lastLog' = "User service listening on port"
    /\ UNCHANGED << nats, listening, closeP, sigterm, exited, exitCode >>
    /\ UNCHANGED << store, inflight, nReq, clock, lastResp, sends >>

\* The listen callback calls initNATS, which starts Client.connect and suspends.
InitNATS ==
    /\ ~exited
    /\ listening
    /\ connState = "Disconnected"
    /\ connState' = "Connecting"
    /\ lastLog' = "User service listening on port"
    /\ UNCHANGED << nats, listening, closeP, sigterm, exited, exitCode >>
    /\ UNCHANGED << store, inflight, nReq, clock, lastResp, sends >>

\* Client.connect resolves: initNATS resumes and stores the client.
ConnectResolve ==
    /\ ~exited
    /\ connState = "Connecting"
    /\ connState' = "Connected"
    /\ nats' = CLIENT
    /\ lastLog' = "Connected to NATS"
    /\ UNCHANGED << listening, closeP, sigterm, exited, exitCode >>
    /\ UNCHANGED << store, inflight, nReq, clock, lastResp, sends >>

\* initNATS, were the failed attempt to leave a handle behind.
ConnectRejectKeepsHandle ==
    /\ ~exited
    /\ connState = "Connecting"
    /\ connState' = "ConnectFailed"
    /\ nats' = CLIENT
    /\ lastLog' = "Continuing without NATS integration"
    /\ UNCHANGED << listening, closeP, sigterm, exited, exitCode >>
    /\ UNCHANGED << store, inflight, nReq, clock, lastResp, sends >>

\* Client.connect rejects: the catch block logs and initNATS returns.
ConnectReject ==
    /\ ~exited
    /\ connState = "Connecting"
    /\ connState' = "ConnectFailed"
    /\ nats' = nats
    /\ lastLog' = "Continuing without NATS integration"
    /\ UNCHANGED << listening, closeP, sigterm, exited, exitCode >>
    /\ UNCHANGED << store, inflight, nReq, clock, lastResp, sends >>

----
\* Request handlers

\* GET /health
GetHealth ==
    /\ Accept
    /\ Respond(nReq', Req("GET /health", <<>>, UNDEF, UNDEF), 200,
               [status |-> "healthy", timestamp |-> Now])
    /\ UNCHANGED << store, lifecycle, inflight, sends, lastLog >>

\* GET /ready
GetReady ==
    /\ Accept
    /\ Respond(nReq', Req("GET /ready", <<>>, UNDEF, UNDEF), 200,
               [status |-> "ready", natsConnected |-> (nats # NULL)])
    /\ UNCHANGED << store, lifecycle, inflight, sends, lastLog >>

\* The list handler, were the count taken from the counter.
ListUsersCountsIds ==
    /\ Accept
    /\ Respond(nReq', Req("GET /api/users", <<>>, UNDEF, UNDEF), 200,
               [users |-> users, count |-> nextId - 1])
    /\ UNCHANGED << store, lifecycle, inflight, sends, lastLog >>

\* GET /api/users
ListUsers ==
    /\ Accept
    /\ Respond(nReq', Req("GET /api/users", <<>>, UNDEF, UNDEF), 200,
               [users |-> users, count |-> Len(users)])
    /\ UNCHANGED << store, lifecycle, inflight, sends, lastLog >>

\* The read handler, were the lookup to compare with <= instead of ===.
GetUserLoose(seg) ==
    LET userId == ParseInt(seg)
        hits == {k \in 1..Len(users) : ~userId.nan /\ users[k].id <= userId.val}
        i == IF hits = {} THEN 0 ELSE CHOOSE k \in hits : \A j \in hits : k <= j
        req == Req("GET /api/users/:id", seg, UNDEF, UNDEF)
    IN  /\ Accept
        /\ IF i = 0
           THEN Respond(nReq', req, 404, ErrorBody("User not found"))
           ELSE Respond(nReq', req, 200, users[i])
        /\ UNCHANGED << store, lifecycle, inflight, sends, lastLog >>

\* GET /api/users/:id
GetUser(seg) ==
    LET userId == ParseInt(seg)
        i == FindIndex(userId)
        req == Req("GET /api/users/:id", seg, UNDEF, UNDEF)
    IN  /\ Accept
        /\ IF i = 0
           THEN Respond(nReq', req, 404, ErrorBody("User not found"))
           ELSE Respond(nReq', req, 200, users[i])
        /\ UNCHANGED << store, lifecycle, inflight, sends, lastLog >>

\* The create handler, were it to number records by the length of the list.
NewUserByLength(name, email) ==
    [id |-> Len(users) + 1, name |-> name, email |-> email, createdAt |-> Now]

\* The create handler, were it to store the two fields crosswise.
NewUserSwapped(name, email) ==
    [id |-> nextId, name |-> email, email |-> name, createdAt |-> Now]

\* The record built by the create handler.
NewUser(name, email) ==
    [id |-> nextId, name |-> name, email |-> email, createdAt |-> Now]

\* The create handler, were the id taken before the body is validated.
PostUserCountsRejected(name, email) ==
    LET req == Req("POST /api/users", <<>>, name, email)
        user == NewUser(name, email)
    IN  /\ Accept
        /\ nextId' = nextId + 1
        /\ IF ~Truthy(name) \/ ~Truthy(email)
           THEN /\ Respond(nReq', req, 400, ErrorBody("Name and email are required"))
                /\ UNCHANGED << users, created, inflight, sends >>
           ELSE /\ users' = Append(users, user)
                /\ created' = Append(created, user.id)
                /\ IF nats # NULL
                   THEN /\ sends' = Append(sends, user)
                        /\ inflight' = inflight \cup
                              {[rid |-> nReq', req |-> req, user |-> user,
                                afterSig |-> sigterm]}
                        /\ UNCHANGED lastResp
                   ELSE /\ Respond(nReq', req, 201, user)
                        /\ UNCHANGED << inflight, sends >>
        /\ UNCHANGED << lifecycle, lastLog >>

\* POST /api/users, up to the response or to the awaited publish.
PostUser(name, email) ==
    LET req == Req("POST /api/users", <<>>, name, email)
        user == NewUser(name, email)
    IN  /\ Accept
        /\ IF ~Truthy(name) \/ ~Truthy(email)
           THEN /\ Respond(nReq', req, 400, ErrorBody("Name and email are required"))
                /\ UNCHANGED << store, inflight, sends >>
           ELSE /\ nextId' = nextId + 1
                /\ users' = Append(users, user)
                /\ created' = Append(created, user.id)
                /\ IF nats # NULL
                   THEN /\ sends' = Append(sends, user)
                        /\ inflight' = inflight \cup
                              {[rid |-> nReq', req |-> req, user |-> user,
                                afterSig |-> sigterm]}
                        /\ UNCHANGED lastResp
                   ELSE /\ Respond(nReq', req, 201, user)
                        /\ UNCHANGED << inflight, sends >>
        /\ UNCHANGED << lifecycle, lastLog >>

\* The create handler, were it to store its record again after the await.
PublishResolveWritesBack(p) ==
    /\ ~exited
    /\ p \in inflight
    /\ inflight' = inflight \ {p}
    /\ lastLog' = "Published user.created event:"
    /\ Reply(p.rid, p.req, 201, p.user, p.afterSig)
    /\ users' = [i \in 1..Len(users) |->
                    IF users[i].id = p.user.id THEN p.user ELSE users[i]]
    /\ UNCHANGED << nextId, created, lifecycle, nReq, clock, sends >>

\* nats.publish resolves: the handler resumes, logs and responds.
PublishResolve(p) ==
    /\ ~exited
    /\ p \in inflight
    /\ inflight' = inflight \ {p}
    /\ lastLog' = "Published user.created event:"
    /\ Reply(p.rid, p.req, 201, p.user, p.afterSig)
    /\ UNCHANGED << store, lifecycle, nReq, clock, sends >>

\* The create handler, were the publish not wrapped in try/catch: the error
\* reaches the error middleware.
PublishRejectUncaught(p) ==
    /\ ~exited
    /\ p \in inflight
    /\ inflight' = inflight \ {p}
    /\ lastLog' = "Failed to publish event:"
    /\ Reply(p.rid, p.req, 500, ErrorBody("Something went wrong!"), p.afterSig)
    /\ UNCHANGED << store, lifecycle, nReq, clock, sends >>

\* nats.publish rejects: the catch block logs, the handler responds.
PublishReject(p) ==
    /\ ~exited
    /\ p \in inflight
    /\ inflight' = inflight \ {p}
    /\ lastLog' = "Failed to publish event:"
    /\ Reply(p.rid, p.req, 201, p.user, p.afterSig)
    /\ UNCHANGED << store, lifecycle, nReq, clock, sends >>

\* The update handler, were it to stamp createdAt as well.
UpdatedUserRestamped(old, name, email) ==
    [f \in DOMAIN old \cup {"updatedAt"} |->
        CASE f = "name" -> Or(name, old.name)
          [] f = "email" -> Or(email, old.email)
          [] f = "updatedAt" -> Now
          [] f = "createdAt" -> Now
          [] OTHER -> old[f]]

\* The record written by the update handler.
UpdatedUser(old, name, email) ==
    [f \in DOMAIN old \cup {"updatedAt"} |->
        CASE f = "name" -> Or(name, old.name)
          [] f = "email" -> Or(email, old.email)
          [] f = "updatedAt" -> Now
          [] OTHER -> old[f]]

\* PUT /api/users/:id
PutUser(seg, name, email) ==
    LET userId == ParseInt(seg)
        i == FindIndex(userId)
        req == Req("PUT /api/users/:id", seg, name, email)
    IN  /\ Accept
        /\ IF i = 0
           THEN /\ Respond(nReq', req, 404, ErrorBody("User not found"))
                /\ UNCHANGED users
           ELSE /\ users' = [users EXCEPT ![i] = UpdatedUser(users[i], name, email)]
                /\ Respond(nReq', req, 200, users'[i])
        /\ UNCHANGED << nextId, created, lifecycle, inflight, sends, lastLog >>

\* DELETE /api/users/:id
DeleteUser(seg) ==
    LET userId == ParseInt(seg)
        i == FindIndex(userId)
        req == Req("DELETE /api/users/:id", seg, UNDEF, UNDEF)
    IN  /\ Accept
        /\ IF i = 0
           THEN /\ Respond(nReq', req, 404, ErrorBody("User not found"))
                /\ UNCHANGED users
           ELSE /\ users' = Splice(users, i)
                /\ Respond(nReq', req, 204, EmptyBody)
        /\ UNCHANGED << nextId, created, lifecycle, inflight, sends, lastLog >>

----
\* Shutdown

\* The SIGTERM handler, were close() called without await.
SigtermNoAwait ==
    /\ ~exited
    /\ ~sigterm
    /\ sigterm' = TRUE
    /\ lastLog' = "SIGTERM received, shutting down gracefully"
    /\ closeP' = IF nats # NULL THEN "pending" ELSE closeP
    /\ exited' = TRUE
    /\ exitCode' = 0
    /\ UNCHANGED << nats, connState, listening >>
    /\ UNCHANGED << store, inflight, nReq, clock, lastResp, sends >>

\* The SIGTERM handler, up to process.exit(0) or to the awaited close.
\* One termination signal per run is modelled.
Sigterm ==
    /\ ~exited
    /\ ~sigterm
    /\ sigterm' = TRUE
    /\ lastLog' = "SIGTERM received, shutting down gracefully"
    /\ IF nats # NULL
       THEN /\ closeP' = "pending"
            /\ UNCHANGED << exited, exitCode >>
       ELSE /\ exited' = TRUE
            /\ exitCode' = 0
            /\ UNCHANGED closeP
    /\ UNCHANGED << nats, connState, listening >>
    /\ UNCHANGED << store, inflight, nReq, clock, lastResp, sends >>

\* The library releases the connection while close() is pending.
CloseRelease ==
    /\ ~exited
    /\ closeP = "pending"
    /\ connState = "Connected"
    /\ connState' = "Closed"
    /\ UNCHANGED << nats, listening, closeP, sigterm, exited, exitCode >>
    /\ UNCHANGED << store, inflight, nReq, clock, lastResp, sends, lastLog >>

\* nats.close() resolves: the handler resumes and calls process.exit(0).
CloseResolve ==
    /\ ~exited
    /\ closeP = "pending"
    /\ connState = "Closed"
    /\ closeP' = "resolved"
    /\ exited' = TRUE
    /\ exitCode' = 0
    /\ UNCHANGED << nats, connState, listening, sigterm >>
    /\ UNCHANGED << store, inflight, nReq, clock, lastResp, sends, lastLog >>

\* nats.close() rejects: the handler's promise rejects with nothing to catch
\* it, and Node 18 ends the process with code 1.
CloseReject ==
    /\ ~exited
    /\ closeP = "pending"
    /\ closeP' = "rejected"
    /\ exited' = TRUE
    /\ exitCode' = 1
    /\ UNCHANGED << nats, connState, listening, sigterm >>
    /\ UNCHANGED << store, inflight, nReq, clock, lastResp, sends, lastLog >>

----
Next ==
    \/ Listen
    \/ InitNATS
    \/ ConnectResolve
    \/ ConnectReject
    \/ GetHealth
    \/ GetReady
    \/ ListUsers
    \/ \E seg \in Segs : GetUser(seg)
    \/ \E name \in PostNames, email \in PostEmails : PostUser(name, email)
    \/ \E p \in inflight : PublishResolve(p)
    \/ \E p \in inflight : PublishReject(p)
    \/ \E seg \in Segs, name \in PutNames, email \in PutEmails : PutUser(seg, name, email)
    \/ \E seg \in Segs : DeleteUser(seg)
    \/ Sigterm
    \/ CloseRelease
    \/ CloseResolve
    \/ CloseReject

Spec == Init /\ [][Next]_vars

\* The event loop runs a callback that is ready: the bind completes and the
\* listen callback runs.  Requests and the signal come from outside, and no
\* promise of the NATS client is bound to settle.
FairSpec == Spec /\ WF_vars(Listen) /\ WF_vars(InitNATS)

----
\* Properties

ValidPost(req) ==
    req.method = "POST /api/users" /\ Truthy(req.name) /\ Truthy(req.email)

\* The request accepted by this step, answered in it or suspended by it.
Accepted == nReq' = nReq + 1
AnsweredNow == Accepted /\ lastResp'.rid = nReq'
Suspended == inflight' \ inflight
Resumed == inflight \ inflight'

\* C1: the i-th successfully created record receives id i, whatever requests
\* (deletes, updates, reads, rejected creates) come in between; so no id is
\* ever assigned twice.
C1_IthCreateGetsIdI ==
    /\ \A i \in 1..Len(created) : created[i] = i
    /\ nextId = Len(created) + 1

\* A second record was created after the first one had been deleted.
C1_Witness ==
    /\ lastResp.rid = 3
    /\ lastResp.status = 201
    /\ lastResp.body.id = 2
    /\ Len(users) = 1

\* C2: once the connection attempt has failed, every request is answered
\* without a server error, every valid POST stores its record and returns
\* 201, every GET /ready reports natsConnected false, and the listener stays
\* bound.
C2_ConnectFailureIsHarmless ==
    [][connState = "ConnectFailed" =>
          /\ listening'
          /\ nats' = NULL
          /\ Accepted =>
                /\ lastResp'.rid = nReq'
                /\ lastResp'.status < 500
                /\ ValidPost(lastResp'.req) =>
                      /\ lastResp'.status = 201
                      /\ users' = Append(users, lastResp'.body)
                /\ lastResp'.req.method = "GET /ready" =>
                      lastResp'.body.natsConnected = FALSE]_vars

\* A valid POST was answered 201 after the connection attempt had failed.
C2_Witness ==
    /\ lastResp.conn = "ConnectFailed"
    /\ ValidPost(lastResp.req)
    /\ lastResp.status = 201
    /\ Len(users) > 0

\* C3: when the send of user.created fails, the suspended POST is answered
\* 201 with the record it created, the store is left as it is, and no 500 is
\* ever produced.
C3_PublishFailureSwallowed ==
    /\ [](lastResp.status # 500)
    /\ [][(Resumed # {} /\ lastLog' = "Failed to publish event:") =>
             \A p \in Resumed :
                /\ lastResp'.rid = p.rid
                /\ lastResp'.status = 201
                /\ lastResp'.body = p.user
                /\ users' = users
                /\ nextId' = nextId]_vars

\* The only request of the run was a POST whose publish failed.
C3_Witness ==
    /\ nReq = 1
    /\ lastLog = "Failed to publish event:"
    /\ lastResp.rid = 1
    /\ lastResp.status = 201
    /\ Len(users) = 1

\* C4: the 201 response does not wait for the publish: no accepted POST is
\* left unanswered while its publish is outstanding.
C4_ResponseDoesNotWaitForPublish ==
    \A r \in 1..nReq : ~(\E p \in inflight : p.rid = r)

\* C5: on the termination signal close() is invoked exactly when the handle
\* is set; the process then exits with code 0 only once close() has
\* resolved; with no handle it exits with code 0 at once and close() is not
\* invoked.
C5_ShutdownOrder ==
    /\ []((exited /\ exitCode = 0 /\ closeP # "none") => closeP = "resolved")
    /\ []((exited /\ closeP = "none") => exitCode = 0)
    /\ [][(sigterm' /\ ~sigterm) =>
             IF nats # NULL
             THEN closeP' = "pending" /\ ~exited'
             ELSE closeP' = "none" /\ exited' /\ exitCode' = 0]_vars
    /\ [][closeP' # closeP => (sigterm' /\ nats # NULL)]_vars

\* The process exited with code 0 after the close it had invoked resolved.
C5_Witness ==
    /\ exited
    /\ exitCode = 0
    /\ closeP = "resolved"
    /\ connState = "Closed"

\* C6: after the termination signal no request is accepted, so none changes
\* the store or triggers a publish.
C6_NoRequestAfterSignal ==
    [][sigterm => (nReq' = nReq /\ users' = users /\ sends' = sends)]_vars

\* C7: the process does not exit while a request accepted before the signal
\* is still unanswered.
C7_InFlightAnsweredBeforeExit ==
    exited => \A p \in inflight : p.afterSig

\* C8: the connection is attempted only once the listener is bound, and
\* while the attempt is pending or has failed every accepted request is
\* answered in the step that accepts it.
C8_ListenerDoesNotWaitForBus ==
    /\ [](connState # "Disconnected" => listening)
    /\ [][(connState \in {"Connecting", "ConnectFailed"} /\ Accepted) =>
             /\ lastResp'.rid = nReq'
             /\ lastResp'.status \in {200, 201, 204, 400, 404}
             /\ inflight' = inflight]_vars

\* A request was answered while the connection attempt was pending.
C8_Witness ==
    /\ lastResp.rid > 0
    /\ lastResp.conn = "Connecting"
    /\ connState = "Connecting"

\* C9: GET /ready reports natsConnected true exactly when the connection is
\* established.
C9_ReadyReflectsConnection ==
    lastResp.req.method = "GET /ready" =>
        lastResp.body.natsConnected = (lastResp.conn = "Connected")

\* The record appended by this step.
Appended == users'[Len(users')]

\* C10: a valid POST appends one record, carrying the submitted name and
\* email, a createdAt stamp and no updatedAt, after the unchanged earlier
\* records; its response, when written, is 201 with that record.
C10_CreateAppendsRecord ==
    /\ [][(AnsweredNow /\ ValidPost(lastResp'.req)) =>
             /\ lastResp'.status = 201
             /\ lastResp'.body = Appended
             /\ Appended.name = lastResp'.req.name
             /\ Appended.email = lastResp'.req.email]_vars
    /\ [][\A p \in Suspended :
             /\ ValidPost(p.req)
             /\ p.user = Appended
             /\ Appended.name = p.req.name
             /\ Appended.email = p.req.email]_vars
    /\ [][((AnsweredNow /\ ValidPost(lastResp'.req)) \/ Suspended # {}) =>
             /\ users' = Append(users, Appended)
             /\ Len(users') = Len(users) + 1
             /\ DOMAIN Appended = {"id", "name", "email", "createdAt"}
             /\ Appended.createdAt = clock]_vars
    /\ [][\A p \in Resumed :
             /\ lastResp'.rid = p.rid
             /\ lastResp'.status = 201
             /\ lastResp'.body = p.user
             /\ lastResp'.body.name = p.req.name
             /\ lastResp'.body.email = p.req.email
             /\ DOMAIN lastResp'.body = {"id", "name", "email", "createdAt"}]_vars

\* A second record was created, behind a first one that was updated before.
C10_Witness ==
    /\ lastResp.rid = 3
    /\ ValidPost(lastResp.req)
    /\ lastResp.status = 201
    /\ Len(users) = 2
    /\ users[2] = lastResp.body
    /\ "updatedAt" \in DOMAIN users[1]

\* The decimal numeral of an id below ten, as a path segment.
DigitChars == <<"0", "1", "2", "3", "4", "5", "6", "7", "8", "9">>
Numeral(id) == <<DigitChars[id + 1]>>

\* A record with this id is in the list.
HasId(us, id) == \E i \in 1..Len(us) : us[i].id = id

\* The segment is the numeral of an id that no record of the list carries.
NamesAbsentId(us, seg) ==
    \E id \in 1..9 : seg = Numeral(id) /\ ~HasId(us, id)

\* C11: a POST whose name or email is absent or empty is answered 400
\* {error: 'Name and email are required'}; a PUT or DELETE for an id that is
\* not in the store is answered 404 {error: 'User not found'}; and every
\* request answered 400 or 404 leaves the collection and the counter as they
\* were and attempts no send.
C11_RejectedRequestChangesNothing ==
    [][AnsweredNow =>
          LET req == lastResp'.req
          IN  /\ (req.method = "POST /api/users"
                    /\ (req.name \in {UNDEF, ""} \/ req.email \in {UNDEF, ""})) =>
                     /\ lastResp'.status = 400
                     /\ lastResp'.body = ErrorBody("Name and email are required")
              /\ (req.method \in {"PUT /api/users/:id", "DELETE /api/users/:id"}
                    /\ NamesAbsentId(users, req.seg)) =>
                     /\ lastResp'.status = 404
                     /\ lastResp'.body = ErrorBody("User not found")
              /\ lastResp'.status \in {400, 404} =>
                     /\ users' = users
                     /\ nextId' = nextId
                     /\ sends' = sends
                     /\ inflight' = inflight]_vars

\* With a record stored and the adapter connected, a POST without email was
\* answered 400.
C11_Witness ==
    /\ lastResp.status = 400
    /\ lastResp.req.name = "John"
    /\ lastResp.req.email = UNDEF
    /\ lastResp.conn = "Connected"
    /\ Len(users) = 1
    /\ nextId = 2

\* The records of the list, as a set.
Records(us) == {us[i] : i \in 1..Len(us)}

\* C12: GET /api/users/:id answers 200 with the stored record when a record
\* with that id is in the collection, 404 {error: 'User not found'} when
\* none is (never created, or deleted), and changes nothing in the store.
C12_GetReturnsStoredRecord ==
    [][(AnsweredNow /\ lastResp'.req.method = "GET /api/users/:id") =>
          /\ users' = users
          /\ nextId' = nextId
          /\ sends' = sends
          /\ \A id \in 1..9 :
                lastResp'.req.seg = Numeral(id) =>
                   IF HasId(users, id)
                   THEN /\ lastResp'.status = 200
                        /\ lastResp'.body \in Records(users)
                        /\ lastResp'.body.id = id
                   ELSE /\ lastResp'.status = 404
                        /\ lastResp'.body = ErrorBody("User not found")]_vars

\* Record 1 was created and deleted, and a GET of it was answered 404.
C12_Witness ==
    /\ lastResp.req.method = "GET /api/users/:id"
    /\ lastResp.req.seg = <<"1">>
    /\ lastResp.status = 404
    /\ created = <<1>>
    /\ users = <<>>

\* The list without the record of this id, the others in their order.
Without(us, id) == SelectSeq(us, LAMBDA u : u.id # id)

\* The ids assigned so far.
CreatedIds == {created[i] : i \in 1..Len(created)}

\* C13: DELETE of an id in the store answers 204 with an empty body and
\* removes that record and no other, the rest keeping its order; an id that
\* was deleted stays absent, and every later GET, PUT or DELETE of it is
\* answered 404.
C13_DeleteRemovesForGood ==
    /\ [][(AnsweredNow /\ lastResp'.req.method = "DELETE /api/users/:id") =>
             /\ \A id \in 1..9 :
                   (lastResp'.req.seg = Numeral(id) /\ HasId(users, id)) =>
                      /\ lastResp'.status = 204
                      /\ users' = Without(users, id)
             /\ lastResp'.status = 204 =>
                   /\ lastResp'.body = EmptyBody
                   /\ Len(users') = Len(users) - 1
                   /\ \E id \in CreatedIds : users' = Without(users, id)
                   /\ nextId' = nextId]_vars
    /\ [][\A id \in CreatedIds : ~HasId(users, id) => ~HasId(users', id)]_vars
    /\ [][(AnsweredNow /\ lastResp'.req.method \in
                {"GET /api/users/:id", "PUT /api/users/:id", "DELETE /api/users/:id"}) =>
             \A id \in CreatedIds :
                (lastResp'.req.seg = Numeral(id) /\ ~HasId(users, id)) =>
                   /\ lastResp'.status = 404
                   /\ users' = users]_vars

\* Record 1 was created and deleted, and a second DELETE of it was answered 404.
C13_Witness ==
    /\ lastResp.req.method = "DELETE /api/users/:id"
    /\ lastResp.req.seg = <<"1">>
    /\ lastResp.status = 404
    /\ created = <<1>>
    /\ users = <<>>

\* The value a PUT leaves in a field: the submitted one, or the previous one
\* when the body has none or an empty one.
Kept(submitted, previous) ==
    IF submitted \in {UNDEF, ""} THEN previous ELSE submitted

\* C14: a PUT answered 200 rewrites one record in place: its name and email
\* become the submitted values where the body has them and stay as they were
\* where it has not, updatedAt is set, id and createdAt stay; every other
\* record, the order of the list and the counter are unchanged.  A PUT of an
\* id in the store is answered 200 and rewrites the record of that id.
C14_PutChangesOnlyNameEmailUpdatedAt ==
    [][(AnsweredNow /\ lastResp'.req.method = "PUT /api/users/:id") =>
          LET req == lastResp'.req
          IN  /\ \A id \in 1..9 :
                    (req.seg = Numeral(id) /\ HasId(users, id)) =>
                        lastResp'.status = 200 /\ lastResp'.body.id = id
              /\ lastResp'.status = 200 =>
                    /\ Len(users') = Len(users)
                    /\ nextId' = nextId
                    /\ sends' = sends
                    /\ \E i \in 1..Len(users) :
                          /\ \A j \in 1..Len(users) : j # i => users'[j] = users[j]
                          /\ lastResp'.body = users'[i]
                          /\ DOMAIN users'[i] = DOMAIN users[i] \cup {"updatedAt"}
                          /\ users'[i].id = users[i].id
                          /\ users'[i].createdAt = users[i].createdAt
                          /\ users'[i].name = Kept(req.name, users[i].name)
                          /\ users'[i].email = Kept(req.email, users[i].email)
                          /\ users'[i].updatedAt = clock]_vars

\* A PUT with only a name renamed the second record and kept its email.
C14_Witness ==
    /\ lastResp.req.method = "PUT /api/users/:id"
    /\ lastResp.req.seg = <<"2">>
    /\ lastResp.req.name = "New"
    /\ lastResp.req.email = UNDEF
    /\ lastResp.status = 200
    /\ Len(users) = 2
    /\ users[2].name = "New"
    /\ users[2].email = "john@x"
    /\ "updatedAt" \in DOMAIN users[2]
    /\ "updatedAt" \notin DOMAIN users[1]

\* The segment spells an integer: digits and nothing else.
IsInteger(seg) == seg # <<>> /\ \A k \in 1..Len(seg) : seg[k] \in Digits

\* C15: GET, PUT and DELETE of a path segment that is not a well-formed
\* integer are answered 404 and leave every record as it is.
C15_MalformedIdIsNotFound ==
    [][(AnsweredNow
          /\ lastResp'.req.method \in
                {"GET /api/users/:id", "PUT /api/users/:id", "DELETE /api/users/:id"}
          /\ ~IsInteger(lastResp'.req.seg)) =>
             /\ lastResp'.status = 404
             /\ users' = users]_vars

\* C16: after the termination signal the process eventually exits, also when
\* the adapter's close or a pending publish never completes.
C16_ShutdownTerminates == sigterm ~> exited

\* This step creates a record: a valid POST answered in it or suspended by it.
Creates == (AnsweredNow /\ ValidPost(lastResp'.req)) \/ Suspended # {}

\* C17: a creation handled while the adapter is Connected attempts one send,
\* carrying the created record; a creation handled in any other connection
\* state attempts none; no other step attempts a send, so none is retried.
C17_OneSendPerCreation ==
    [][IF Creates /\ connState = "Connected"
       THEN sends' = Append(sends, Appended)
       ELSE sends' = sends]_vars

\* The ids of the list are at least 1, below the counter and strictly
\* increasing from front to back.
IdsIncreasing(us) ==
    /\ \A i \in 1..Len(us) : us[i].id >= 1 /\ us[i].id < nextId
    /\ \A i, j \in 1..Len(us) : i < j => us[i].id < us[j].id

\* C18: the ids in the collection are pairwise distinct, at least 1 and below
\* the next-id counter, and GET /api/users returns the collection as it is,
\* in insertion order (strictly increasing by id), with count equal to its
\* length.
C18_IdsDistinctAndOrdered ==
    /\ [](IdsIncreasing(users))
    /\ []((lastResp.req.method = "GET /api/users") =>
             /\ lastResp.status = 200
             /\ lastResp.body.count = Len(lastResp.body.users)
             /\ IdsIncreasing(lastResp.body.users))
    /\ [][(AnsweredNow /\ lastResp'.req.method = "GET /api/users") =>
             /\ lastResp'.body.users = users
             /\ users' = users]_vars

\* After two creates the list was returned: records 1 and 2, count 2.
C18_Witness ==
    /\ lastResp.req.method = "GET /api/users"
    /\ lastResp.body.count = 2
    /\ lastResp.body.users[1].id = 1
    /\ lastResp.body.users[2].id = 2
    /\ "updatedAt" \notin DOMAIN lastResp.body.users[1]

\* C19: every stored record has a non-empty name and a non-empty email,
\* whatever POST and PUT bodies were sent; an empty field in a PUT keeps the
\* previous value.
C19_NameAndEmailNeverEmpty ==
    \A i \in 1..Len(users) :
        /\ users[i].name \notin {UNDEF, ""}
        /\ users[i].email \notin {UNDEF, ""}

\* A PUT with an empty name and an empty email was answered 200 and the
\* record kept both.
C19_Witness ==
    /\ lastResp.req.method = "PUT /api/users/:id"
    /\ lastResp.req.name = ""
    /\ lastResp.req.email = ""
    /\ lastResp.status = 200
    /\ Len(users) = 1
    /\ users[1].name = "John"
    /\ users[1].email = "john@x"
    /\ "updatedAt" \in DOMAIN users[1]

\* This step is a DELETE answered 204, or a PUT answered 200.
Deletes ==
    AnsweredNow /\ lastResp'.req.method = "DELETE /api/users/:id" /\ lastResp'.status = 204
Updates ==
    AnsweredNow /\ lastResp'.req.method = "PUT /api/users/:id" /\ lastResp'.status = 200

\* C20: with POST handlers suspended at the awaited publish while other
\* requests run, no two creations get the same id, a handler that suspends
\* has already taken its id and appended its record, and no record or update
\* is lost: only a DELETE removes a record, only a PUT changes one, and a
\* resumed handler writes nothing to the store.
C20_NoDuplicateIdNoLostWrite ==
    /\ [](\A i, j \in 1..Len(created) : i # j => created[i] # created[j])
    /\ [](\A p, q \in inflight : p # q => p.user.id # q.user.id)
    /\ [][\A p \in Suspended :
             /\ p.user \in Records(users')
             /\ p.user.id = nextId
             /\ nextId' = nextId + 1]_vars
    /\ [][Resumed # {} => (users' = users /\ nextId' = nextId)]_vars
    /\ [][~Deletes => \A u \in Records(users) : HasId(users', u.id)]_vars
    /\ [][~Updates => \A u \in Records(users) :
                         HasId(users', u.id) => u \in Records(users')]_vars

\* Two POST handlers are suspended with ids 1 and 2 and record 1 was updated
\* meanwhile.
C20_Witness ==
    /\ Cardinality(inflight) = 2
    /\ {p.user.id : p \in inflight} = {1, 2}
    /\ lastResp.req.method = "PUT /api/users/:id"
    /\ lastResp.status = 200
    /\ Len(users) = 2
    /\ users[1].name = "New"
====
